---- MODULE Spec2Model ----
(***************************************************************************)
(* Model of the Binance MCP tool gateway (src/src/index.ts).               *)
(*                                                                         *)
(* The server registers four tools and answers call-tool requests.  Each   *)
(* invocation runs in three steps: the synchronous part of the handler up  *)
(* to its `await axios.get(...)` (CallTool), the arrival of the outbound   *)
(* response (HttpRespond), and the continuation that formats the reply     *)
(* (Resume).  Return hands the reply to the transport and frees the slot.  *)
(*                                                                         *)
(* Conventions of the model:                                               *)
(*  - a JavaScript value is a record [t, s, n] (type tag, string payload,  *)
(*    integer payload);                                                    *)
(*  - a floating point number is a record [k, n, d]: the rational n/d when *)
(*    k = "fin", else NaN or a signed infinity.  Arithmetic is exact; the  *)
(*    rounding error of IEEE doubles is not modelled;                      *)
(*  - texts are strings; a pictograph of the source is written as its      *)
(*    code point ("U+1F4CA"), since module text is ASCII;                  *)
(*  - locale-dependent formatting is the en-US one, in the UTC time zone.  *)
(***************************************************************************)
EXTENDS Integers, Sequences, FiniteSets, TLC

----------------------------------------------------------------------------
(* JavaScript values *)

Undefined == [t |-> "undefined", s |-> "", n |-> 0]
Null == [t |-> "null", s |-> "", n |-> 0]
Str(x) == [t |-> "string", s |-> x, n |-> 0]
Num(x) == [t |-> "number", s |-> "", n |-> x]

\* ToBoolean, as used by `!x` and `x || y`
Truthy(v) ==
  CASE v.t = "string" -> v.s # ""
    [] v.t = "number" -> v.n # 0
    [] OTHER -> FALSE

\* `${v}` in a template literal
Interpolate(v) ==
  CASE v.t = "string" -> v.s
    [] v.t = "number" -> ToString(v.n)
    [] v.t = "null" -> "null"
    [] OTHER -> "undefined"

----------------------------------------------------------------------------
(* Strings *)

CharAt(s, i) == IF i >= 1 /\ i <= Len(s) THEN SubSeq(s, i, i) ELSE ""

UpperChar(c) ==
  CASE c = "a" -> "A" [] c = "b" -> "B" [] c = "c" -> "C" [] c = "d" -> "D"
    [] c = "e" -> "E" [] c = "f" -> "F" [] c = "g" -> "G" [] c = "h" -> "H"
    [] c = "i" -> "I" [] c = "j" -> "J" [] c = "k" -> "K" [] c = "l" -> "L"
    [] c = "m" -> "M" [] c = "n" -> "N" [] c = "o" -> "O" [] c = "p" -> "P"
    [] c = "q" -> "Q" [] c = "r" -> "R" [] c = "s" -> "S" [] c = "t" -> "T"
    [] c = "u" -> "U" [] c = "v" -> "V" [] c = "w" -> "W" [] c = "x" -> "X"
    [] c = "y" -> "Y" [] c = "z" -> "Z" [] OTHER -> c

RECURSIVE UpperFrom(_, _)
UpperFrom(s, i) ==
  IF i > Len(s) THEN "" ELSE UpperChar(CharAt(s, i)) \o UpperFrom(s, i + 1)

\* String.prototype.toUpperCase
ToUpperCase(s) == UpperFrom(s, 1)

StartsWith(s, p) == Len(s) >= Len(p) /\ SubSeq(s, 1, Len(p)) = p

EndsWith(s, p) ==
  Len(s) >= Len(p) /\ SubSeq(s, Len(s) - Len(p) + 1, Len(s)) = p

\* String.prototype.indexOf, 1-based; 0 when `sub` does not occur
IndexOf(s, sub) ==
  LET hits == {i \in 1..(Len(s) - Len(sub) + 1) : SubSeq(s, i, i + Len(sub) - 1) = sub}
  IN IF hits = {} THEN 0 ELSE CHOOSE i \in hits : \A j \in hits : i <= j

Contains(s, sub) == IndexOf(s, sub) # 0

\* String.prototype.replace(sub, ''): the first occurrence only
RemoveFirst(s, sub) ==
  LET i == IndexOf(s, sub)
  IN IF i = 0 THEN s
     ELSE SubSeq(s, 1, i - 1) \o SubSeq(s, i + Len(sub), Len(s))

\* String.prototype.split(sep)[0] and [1], for a separator that occurs
BeforeFirst(s, sep) ==
  LET i == IndexOf(s, sep) IN IF i = 0 THEN s ELSE SubSeq(s, 1, i - 1)

AfterFirst(s, sep) ==
  LET i == IndexOf(s, sep) IN IF i = 0 THEN "" ELSE SubSeq(s, i + Len(sep), Len(s))

RECURSIVE JoinFrom(_, _, _)
JoinFrom(lines, i, sep) ==
  IF i > Len(lines) THEN ""
  ELSE IF i = Len(lines) THEN lines[i]
  ELSE lines[i] \o sep \o JoinFrom(lines, i + 1, sep)

\* Array.prototype.join
Join(lines, sep) == JoinFrom(lines, 1, sep)

RECURSIVE PadLeft(_, _)
PadLeft(s, w) == IF Len(s) >= w THEN s ELSE PadLeft("0" \o s, w)

----------------------------------------------------------------------------
(* Numbers *)

Fin(a, b) == [k |-> "fin", n |-> a, d |-> b]
NaN == [k |-> "nan", n |-> 0, d |-> 1]
Inf(sign) == [k |-> "inf", n |-> sign, d |-> 1]

RECURSIVE Pow10(_)
Pow10(e) == IF e = 0 THEN 1 ELSE 10 * Pow10(e - 1)

Abs(x) == IF x < 0 THEN -x ELSE x

IsDigit(c) == c \in {"0", "1", "2", "3", "4", "5", "6", "7", "8", "9"}

DigitVal(c) ==
  CASE c = "0" -> 0 [] c = "1" -> 1 [] c = "2" -> 2 [] c = "3" -> 3
    [] c = "4" -> 4 [] c = "5" -> 5 [] c = "6" -> 6 [] c = "7" -> 7
    [] c = "8" -> 8 [] c = "9" -> 9

\* the index after the run of digits that starts at i
RECURSIVE DigitsEnd(_, _)
DigitsEnd(s, i) == IF IsDigit(CharAt(s, i)) THEN DigitsEnd(s, i + 1) ELSE i

\* the value of the digits s[i..j-1], continuing from acc
RECURSIVE DigitsValue(_, _, _, _)
DigitsValue(s, i, j, acc) ==
  IF i >= j THEN acc
  ELSE DigitsValue(s, i + 1, j, 10 * acc + DigitVal(CharAt(s, i)))

\* parseFloat of a string: an optional sign, digits, an optional fraction; the
\* longest such prefix, NaN when there is none.  Exponents are not modelled.
ParseFloatStr(s) ==
  LET neg == CharAt(s, 1) = "-"
      b == IF CharAt(s, 1) \in {"-", "+"} THEN 2 ELSE 1
      ie == DigitsEnd(s, b)
      fb == ie + 1
      fe == IF CharAt(s, ie) = "." THEN DigitsEnd(s, fb) ELSE fb
      nfrac == fe - fb
      whole == DigitsValue(s, b, ie, 0)
      mant == DigitsValue(s, fb, fe, whole)
  IN IF ie = b /\ nfrac = 0 THEN NaN
     ELSE Fin(IF neg THEN -mant ELSE mant, Pow10(nfrac))

\* parseFloat(v): the argument is converted to a string first
ParseFloat(v) ==
  CASE v.t = "string" -> ParseFloatStr(v.s)
    [] v.t = "number" -> Fin(v.n, 1)
    [] OTHER -> NaN

FSub(a, b) ==
  IF a.k = "fin" /\ b.k = "fin" THEN Fin(a.n * b.d - b.n * a.d, a.d * b.d)
  ELSE IF a.k = "inf" /\ b.k = "fin" THEN a
  ELSE IF a.k = "fin" /\ b.k = "inf" THEN Inf(-b.n)
  ELSE IF a.k = "inf" /\ b.k = "inf" /\ a.n # b.n THEN a
  ELSE NaN

FDiv(a, b) ==
  IF a.k = "fin" /\ b.k = "fin"
  THEN IF b.n = 0
       THEN (IF a.n = 0 THEN NaN ELSE Inf(IF a.n > 0 THEN 1 ELSE -1))
       ELSE Fin((IF b.n < 0 THEN -1 ELSE 1) * a.n * b.d, a.d * Abs(b.n))
  ELSE IF a.k = "inf" /\ b.k = "fin" THEN Inf(IF b.n < 0 THEN -a.n ELSE a.n)
  ELSE IF a.k = "fin" /\ b.k = "inf" THEN Fin(0, 1)
  ELSE NaN

FMul(a, b) ==
  IF a.k = "fin" /\ b.k = "fin" THEN Fin(a.n * b.n, a.d * b.d)
  ELSE IF a.k = "nan" \/ b.k = "nan" THEN NaN
  ELSE IF a.n = 0 \/ b.n = 0 THEN NaN
  ELSE Inf(IF (a.n > 0) = (b.n > 0) THEN 1 ELSE -1)

\* a >= b; every comparison with NaN is false
FGeq(a, b) ==
  CASE a.k = "nan" \/ b.k = "nan" -> FALSE
    [] a.k = "fin" /\ b.k = "fin" -> a.n * b.d >= b.n * a.d
    [] a.k = "inf" -> a.n > 0 \/ (b.k = "inf" /\ b.n < 0)
    [] OTHER -> b.n < 0

\* Math.max(...xs) and Math.min(...xs) of a non-empty sequence: NaN if any is
RECURSIVE MaxFrom(_, _, _)
MaxFrom(xs, i, acc) ==
  IF i > Len(xs) THEN acc
  ELSE IF xs[i].k = "nan" \/ acc.k = "nan" THEN NaN
  ELSE MaxFrom(xs, i + 1, IF FGeq(xs[i], acc) THEN xs[i] ELSE acc)

MathMax(xs) == MaxFrom(xs, 1, Inf(-1))

RECURSIVE MinFrom(_, _, _)
MinFrom(xs, i, acc) ==
  IF i > Len(xs) THEN acc
  ELSE IF xs[i].k = "nan" \/ acc.k = "nan" THEN NaN
  ELSE MinFrom(xs, i + 1, IF FGeq(acc, xs[i]) THEN xs[i] ELSE acc)

MathMin(xs) == MinFrom(xs, 1, Inf(1))

\* |n|/d scaled by 10^digits and rounded to the nearest integer, ties upward
RoundScaled(x, digits) ==
  LET whole == Abs(x.n) \div x.d
      rest == Abs(x.n) % x.d
  IN whole * Pow10(digits) + (2 * rest * Pow10(digits) + x.d) \div (2 * x.d)

\* Number.prototype.toFixed(digits)
ToFixed(x, digits) ==
  CASE x.k = "nan" -> "NaN"
    [] x.k = "inf" -> IF x.n > 0 THEN "Infinity" ELSE "-Infinity"
    [] OTHER ->
       LET q == RoundScaled(x, digits)
           whole == ToString(q \div Pow10(digits))
           frac == PadLeft(ToString(q % Pow10(digits)), digits)
       IN (IF x.n < 0 THEN "-" ELSE "") \o whole
          \o (IF digits > 0 THEN "." \o frac ELSE "")

\* the digits of a natural number in groups of three
RECURSIVE Grouped(_)
Grouped(m) ==
  IF m < 1000 THEN ToString(m)
  ELSE Grouped(m \div 1000) \o "," \o PadLeft(ToString(m % 1000), 3)

RECURSIVE StripZeros(_)
StripZeros(s) ==
  IF EndsWith(s, "0") THEN StripZeros(SubSeq(s, 1, Len(s) - 1)) ELSE s

\* Number.prototype.toLocaleString(): grouped, at most three fraction digits
NumberToLocaleString(x) ==
  CASE x.k = "nan" -> "NaN"
    [] x.k = "inf" -> IF x.n > 0 THEN "U+221E" ELSE "-U+221E"
    [] OTHER ->
       LET q == RoundScaled(x, 3)
           frac == StripZeros(PadLeft(ToString(q % 1000), 3))
       IN (IF x.n < 0 THEN "-" ELSE "") \o Grouped(q \div 1000)
          \o (IF frac = "" THEN "" ELSE "." \o frac)

----------------------------------------------------------------------------
(* Dates: a time value is a number of milliseconds since the epoch *)

MsPerDay == 24 * 60 * 60 * 1000

\* the civil date <<year, month, day>> of a day number counted from 1970-01-01
CivilFromDays(days) ==
  LET z == days + 719468
      era == z \div 146097
      doe == z - era * 146097
      yoe == (doe - doe \div 1460 + doe \div 36524 - doe \div 146096) \div 365
      doy == doe - (365 * yoe + yoe \div 4 - yoe \div 100)
      mp == (5 * doy + 2) \div 153
      day == doy - (153 * mp + 2) \div 5 + 1
      month == IF mp < 10 THEN mp + 3 ELSE mp - 9
      year == yoe + era * 400 + (IF month <= 2 THEN 1 ELSE 0)
  IN <<year, month, day>>

\* the day number of a civil date
DaysFromCivil(year, month, day) ==
  LET y == IF month <= 2 THEN year - 1 ELSE year
      era == y \div 400
      yoe == y - era * 400
      mp == IF month > 2 THEN month - 3 ELSE month + 9
      doy == (153 * mp + 2) \div 5 + day - 1
      doe == yoe * 365 + yoe \div 4 - yoe \div 100 + doy
  IN era * 146097 + doe - 719468

\* Date.prototype.toISOString of a valid time value
ToISOString(ms) ==
  LET date == CivilFromDays(ms \div MsPerDay)
      rest == ms % MsPerDay
  IN PadLeft(ToString(date[1]), 4) \o "-" \o PadLeft(ToString(date[2]), 2)
     \o "-" \o PadLeft(ToString(date[3]), 2)
     \o "T" \o PadLeft(ToString(rest \div 3600000), 2)
     \o ":" \o PadLeft(ToString((rest \div 60000) % 60), 2)
     \o ":" \o PadLeft(ToString((rest \div 1000) % 60), 2)
     \o "." \o PadLeft(ToString(rest % 1000), 3) \o "Z"

\* Date.parse of a string in the format toISOString writes
ParseISO(s) ==
  LET num(i, j) == DigitsValue(s, i, j + 1, 0)
  IN DaysFromCivil(num(1, 4), num(6, 7), num(9, 10)) * MsPerDay
     + num(12, 13) * 3600000 + num(15, 16) * 60000 + num(18, 19) * 1000
     + num(21, 23)

\* new Date(v): [valid, ms]; an invalid date has the time value NaN
NewDate(v) ==
  CASE v.t = "number" -> [valid |-> TRUE, ms |-> v.n]
    [] v.t = "null" -> [valid |-> TRUE, ms |-> 0]
    [] v.t = "string" /\ Len(v.s) = 24 /\ CharAt(v.s, 11) = "T"
         /\ CharAt(v.s, 24) = "Z" -> [valid |-> TRUE, ms |-> ParseISO(v.s)]
    [] OTHER -> [valid |-> FALSE, ms |-> 0]

\* Date.prototype.toLocaleString(): "M/D/YYYY, h:mm:ss AM"
DateToLocaleString(date) ==
  IF ~date.valid THEN "Invalid Date"
  ELSE
    LET civil == CivilFromDays(date.ms \div MsPerDay)
        rest == date.ms % MsPerDay
        hour == rest \div 3600000
        hour12 == IF hour % 12 = 0 THEN 12 ELSE hour % 12
    IN ToString(civil[2]) \o "/" \o ToString(civil[3]) \o "/" \o ToString(civil[1])
       \o ", " \o ToString(hour12)
       \o ":" \o PadLeft(ToString((rest \div 60000) % 60), 2)
       \o ":" \o PadLeft(ToString((rest \div 1000) % 60), 2)
       \o (IF hour < 12 THEN " AM" ELSE " PM")

----------------------------------------------------------------------------
(* Outcomes of a function body: a returned text or a thrown Error message *)

Ok(text) == [ok |-> TRUE, v |-> text]
Throw(message) == [ok |-> FALSE, v |-> message]

\* `throw new Error(prefix + message)` in a handler's catch block
Rethrow(prefix, outcome) ==
  IF outcome.ok THEN outcome ELSE Throw(prefix \o outcome.v)

\* SymbolToUpperCase that converts its argument to a string first
SymbolToUpperCaseLenient(symbol) == Ok(ToUpperCase(Interpolate(symbol)))

\* symbol.toUpperCase(): a TypeError unless `symbol` is a string
SymbolToUpperCase(symbol) ==
  CASE symbol.t = "string" -> Ok(ToUpperCase(symbol.s))
    [] symbol.t = "number" -> Throw("symbol.toUpperCase is not a function")
    [] OTHER -> Throw("Cannot read properties of " \o Interpolate(symbol)
                      \o " (reading 'toUpperCase')")

----------------------------------------------------------------------------
(* Response bodies *)

FieldNames ==
  {"symbol", "price", "priceChange", "priceChangePercent", "lastPrice",
   "highPrice", "lowPrice", "volume", "quoteVolume"}

NoFields == [f \in FieldNames |-> Undefined]

NullData == [kind |-> "null", obj |-> NoFields, klines |-> <<>>]
ObjectData(fields) == [kind |-> "object", obj |-> fields, klines |-> <<>>]
ArrayData(items) == [kind |-> "array", obj |-> NoFields, klines |-> items]

\* data.<name>: a TypeError on null, undefined when the property is missing
Field(data, name) == data.obj[name]

\* kline[j] of the positional decode `const [a, b, ...] = kline` (0-based j)
At(kline, j) == IF j + 1 <= Len(kline) THEN kline[j + 1] ELSE Undefined

\* klines.slice(-count)
SliceLast(items, count) ==
  IF Len(items) <= count THEN items
  ELSE SubSeq(items, Len(items) - count + 1, Len(items))

\* NoData without the length test
NoDataNullOnly(data) == data.kind = "null"

\* `!klines || klines.length === 0`
NoData(data) ==
  data.kind = "null" \/ (data.kind = "array" /\ Len(data.klines) = 0)

Signed(x) == IF FGeq(x, Fin(0, 1)) THEN "+" ELSE ""

----------------------------------------------------------------------------
(* The four handlers, from the resolved or rejected outbound call onwards *)

\* getCurrentPrice, lines 205-214
CurrentPriceBody(data) ==
  IF data.kind = "null"
  THEN Throw("Cannot read properties of null (reading 'symbol')")
  ELSE Ok("Current price for " \o Interpolate(Field(data, "symbol")) \o ": $"
          \o NumberToLocaleString(ParseFloat(Field(data, "price"))))

\* the asset label of the 24h volume line
AssetLabel(symbol) ==
  RemoveFirst(RemoveFirst(RemoveFirst(RemoveFirst(symbol, "USDT"), "BUSD"), "BTC"), "ETH")

\* get24hrTicker, lines 226-249
TickerBody(data) ==
  IF data.kind = "null"
  THEN Throw("Cannot read properties of null (reading 'priceChange')")
  ELSE
    LET priceChange == ParseFloat(Field(data, "priceChange"))
        priceChangePercent == ParseFloat(Field(data, "priceChangePercent"))
        currentPrice == ParseFloat(Field(data, "lastPrice"))
        volume == ParseFloat(Field(data, "volume"))
        high24h == ParseFloat(Field(data, "highPrice"))
        low24h == ParseFloat(Field(data, "lowPrice"))
        symbol == Field(data, "symbol")
    IN IF symbol.t = "number" THEN Throw("data.symbol.replace is not a function")
       ELSE IF symbol.t # "string"
       THEN Throw("Cannot read properties of " \o Interpolate(symbol)
                  \o " (reading 'replace')")
       ELSE Ok("U+1F4CA " \o symbol.s \o " - 24hr Statistics:\n"
               \o "            \n"
               \o "U+1F4B0 Current Price: $" \o NumberToLocaleString(currentPrice) \o "\n"
               \o "U+1F4C8 24h Change: " \o Signed(priceChange) \o "$"
               \o ToFixed(priceChange, 4) \o " (" \o Signed(priceChangePercent)
               \o ToFixed(priceChangePercent, 2) \o "%)\n"
               \o "U+1F53C 24h High: $" \o NumberToLocaleString(high24h) \o "\n"
               \o "U+1F53D 24h Low: $" \o NumberToLocaleString(low24h) \o "\n"
               \o "U+1F4CA 24h Volume: " \o NumberToLocaleString(volume) \o " "
               \o AssetLabel(symbol.s) \o "\n"
               \o "U+1F4B5 Quote Volume: $"
               \o NumberToLocaleString(ParseFloat(Field(data, "quoteVolume"))))

\* one element of lastKlines, lines 273-281 (the openTime is a valid date)
DecodeKline(kline) ==
  [time |-> ToISOString(NewDate(At(kline, 0)).ms),
   open |-> ParseFloat(At(kline, 1)),
   high |-> ParseFloat(At(kline, 2)),
   low |-> ParseFloat(At(kline, 3)),
   close |-> ParseFloat(At(kline, 4)),
   volume |-> ParseFloat(At(kline, 5))]

\* one line of "Recent 5 candles", line 302
CandleLine(k) ==
  DateToLocaleString(NewDate(Str(k.time))) \o ": O:" \o ToFixed(k.open, 2)
  \o " H:" \o ToFixed(k.high, 2) \o " L:" \o ToFixed(k.low, 2)
  \o " C:" \o ToFixed(k.close, 2)

\* getKlineData, lines 265-308
KlineBody(symbolUpper, interval, limit, data) ==
  IF NoData(data) THEN Throw("No kline data received")
  ELSE IF data.kind # "array" THEN Throw("klines.slice is not a function")
  ELSE
    LET shown == SliceLast(data.klines, 5)
    IN IF \E j \in 1..Len(shown) : ~NewDate(At(shown[j], 0)).valid
       THEN Throw("Invalid time value")
       ELSE IF Len(shown) = 0
       THEN Throw("Cannot read properties of undefined (reading 'time')")
       ELSE
         LET lastKlines == [j \in 1..Len(shown) |-> DecodeKline(shown[j])]
             latestKline == lastKlines[Len(lastKlines)]
         IN Ok("U+1F4C8 " \o symbolUpper \o " Kline Data (" \o Interpolate(interval)
               \o " interval, last " \o Interpolate(limit) \o " periods):\n"
               \o "\n"
               \o "Latest Candle:\n"
               \o "U+1F550 Time: " \o latestKline.time \o "\n"
               \o "U+1F7E2 Open: $" \o NumberToLocaleString(latestKline.open) \o "\n"
               \o "U+1F534 Close: $" \o NumberToLocaleString(latestKline.close) \o "\n"
               \o "U+1F53C High: $" \o NumberToLocaleString(latestKline.high) \o "\n"
               \o "U+1F53D Low: $" \o NumberToLocaleString(latestKline.low) \o "\n"
               \o "U+1F4CA Volume: " \o NumberToLocaleString(latestKline.volume) \o "\n"
               \o "\n"
               \o "Recent 5 candles:\n"
               \o Join([j \in 1..Len(lastKlines) |-> CandleLine(lastKlines[j])], "\n")
               \o "\n"
               \o "\n"
               \o "Total data points received: " \o ToString(Len(data.klines)))

\* Change relative to the candle's own close instead of the previous one
ChangeOverOwnClose(klines, index) ==
  IF index > 0
  THEN FMul(FDiv(FSub(ParseFloat(At(klines[index + 1], 4)),
                      ParseFloat(At(klines[index], 4))),
                 ParseFloat(At(klines[index + 1], 4))),
            Fin(100, 1))
  ELSE Fin(0, 1)

\* the period-over-period change of entry `index` (0-based), lines 340-341
Change(klines, index) ==
  IF index > 0
  THEN FMul(FDiv(FSub(ParseFloat(At(klines[index + 1], 4)),
                      ParseFloat(At(klines[index], 4))),
                 ParseFloat(At(klines[index], 4))),
            Fin(100, 1))
  ELSE Fin(0, 1)

\* historicalData, lines 330-343 (every openTime is a valid date)
HistoricalData(klines) ==
  [j \in 1..Len(klines) |->
     [period |-> (j - 1) + 1,
      timestamp |-> ToISOString(NewDate(At(klines[j], 0)).ms),
      open |-> ParseFloat(At(klines[j], 1)),
      high |-> ParseFloat(At(klines[j], 2)),
      low |-> ParseFloat(At(klines[j], 3)),
      close |-> ParseFloat(At(klines[j], 4)),
      volume |-> ParseFloat(At(klines[j], 5)),
      change |-> Change(klines, j - 1)]]

\* totalChange, lines 345-347
TotalChange(historicalData) ==
  LET latest == historicalData[Len(historicalData)]
      oldest == historicalData[1]
  IN FMul(FDiv(FSub(latest.close, oldest.open), oldest.open), Fin(100, 1))

\* one line of "Recent 10 periods", line 365
PeriodLine(d) ==
  BeforeFirst(d.timestamp, "T") \o " "
  \o BeforeFirst(AfterFirst(d.timestamp, "T"), ".") \o ": "
  \o ToFixed(d.close, 2) \o " (" \o Signed(d.change) \o ToFixed(d.change, 2) \o "%)"

\* the listing under "Recent 10 periods", lines 364-366
RecentPeriods(historicalData) ==
  LET shown == SliceLast(historicalData, 10)
  IN Join([j \in 1..Len(shown) |-> PeriodLine(shown[j])], "\n")

\* getPriceHistory, lines 324-369
HistoryBody(symbolUpper, interval, limit, data) ==
  IF NoData(data) THEN Throw("No historical data received")
  ELSE IF data.kind # "array" THEN Throw("klines.map is not a function")
  ELSE IF \E j \in 1..Len(data.klines) : ~NewDate(At(data.klines[j], 0)).valid
  THEN Throw("Invalid time value")
  ELSE IF Len(data.klines) = 0
  THEN Throw("Cannot read properties of undefined (reading 'close')")
  ELSE
    LET historicalData == HistoricalData(data.klines)
        latest == historicalData[Len(historicalData)]
        oldest == historicalData[1]
        totalChange == TotalChange(historicalData)
    IN Ok("U+1F4CA " \o symbolUpper \o " Price History (" \o Interpolate(interval)
          \o " intervals, " \o Interpolate(limit) \o " periods):\n"
          \o "\n"
          \o "U+1F4C8 Summary:\n"
          \o "U+2022 Period: " \o BeforeFirst(oldest.timestamp, "T") \o " to "
          \o BeforeFirst(latest.timestamp, "T") \o "\n"
          \o "U+2022 Starting Price: $" \o NumberToLocaleString(oldest.open) \o "\n"
          \o "U+2022 Current Price: $" \o NumberToLocaleString(latest.close) \o "\n"
          \o "U+2022 Total Change: " \o Signed(totalChange)
          \o ToFixed(totalChange, 2) \o "%\n"
          \o "U+2022 Highest: "
          \o NumberToLocaleString(MathMax([j \in 1..Len(historicalData) |->
                                             historicalData[j].high])) \o "\n"
          \o "U+2022 Lowest: "
          \o NumberToLocaleString(MathMin([j \in 1..Len(historicalData) |->
                                             historicalData[j].low])) \o "\n"
          \o "\n"
          \o "U+1F4CB Recent 10 periods:\n"
          \o RecentPeriods(historicalData))

----------------------------------------------------------------------------
(* The gateway *)

\* the registered tools, lines 72-150
ToolNames ==
  {"get_current_price", "get_24hr_ticker", "get_kline_data", "get_price_history"}

\* the enum of get_kline_data's `interval` in its input schema, line 114
IntervalEnum ==
  {"1m", "3m", "5m", "15m", "30m", "1h", "2h", "4h", "6h", "8h", "12h", "1d",
   "3d", "1w", "1M"}

KlineDefaultLimit == 100
HistoryDefaultLimit == 24

\* LimitOr with `??` in place of `||`: only a missing limit gets the default
LimitOrNullish(limit, fallback) ==
  IF limit.t \in {"undefined", "null"} THEN Num(fallback) ELSE limit

\* `(args.limit as number) || fallback`: the cast is erased at run time
LimitOr(limit, fallback) == IF Truthy(limit) THEN limit ELSE Num(fallback)

\* the parameters the switch passes to the handler of `name`, lines 162-181
HandlerParams(name, args) ==
  CASE name = "get_kline_data" ->
         [symbol |-> args.symbol, interval |-> args.interval,
          limit |-> LimitOr(args.limit, KlineDefaultLimit)]
    [] name = "get_price_history" ->
         [symbol |-> args.symbol, interval |-> args.interval,
          limit |-> LimitOr(args.limit, HistoryDefaultLimit)]
    [] OTHER ->
         [symbol |-> args.symbol, interval |-> Undefined, limit |-> Undefined]

\* the handler the switch selects
HandlerOf(name) ==
  CASE name = "get_current_price" -> "getCurrentPrice"
    [] name = "get_24hr_ticker" -> "get24hrTicker"
    [] name = "get_kline_data" -> "getKlineData"
    [] name = "get_price_history" -> "getPriceHistory"

\* the path each handler requests
PathOf(name) ==
  CASE name = "get_current_price" -> "/ticker/price"
    [] name = "get_24hr_ticker" -> "/ticker/24hr"
    [] OTHER -> "/klines"

\* the prefix each handler's catch block puts before the message
PrefixOf(name) ==
  CASE name = "get_current_price" -> "Failed to fetch current price: "
    [] name = "get_24hr_ticker" -> "Failed to fetch 24hr ticker: "
    [] name = "get_kline_data" -> "Failed to fetch kline data: "
    [] name = "get_price_history" -> "Failed to fetch price history: "

\* the reply {content: [{type: "text", text}]}
Result(text) ==
  [kind |-> "result", content |-> <<[type |-> "text", text |-> text]>>,
   message |-> ""]

\* an Error that leaves the call-tool handler: the SDK answers the request
\* with a JSON-RPC error carrying the message
Thrown(message) == [kind |-> "thrown", content |-> <<>>, message |-> message]

NoReply == [kind |-> "none", content |-> <<>>, message |-> ""]

\* GatewayCatch without the "Error: " prefix
GatewayCatchBare(outcome) == Result(outcome.v)

\* the catch block of the call-tool handler, lines 186-195
GatewayCatch(outcome) ==
  IF outcome.ok THEN Result(outcome.v) ELSE Result("Error: " \o outcome.v)

\* the GET a handler issues: the arguments of axios.get
Request(base, name, symbolUpper, params) ==
  [url |-> base \o PathOf(name),
   params |-> [symbol |-> Str(symbolUpper), interval |-> params.interval,
               limit |-> params.limit]]

\* the rest of a handler's try block once the outbound call has settled
HandlerBody(name, params, response) ==
  IF ~response.ok THEN Throw(response.message)
  ELSE
    LET symbolUpper == SymbolToUpperCase(params.symbol).v
    IN CASE name = "get_current_price" -> CurrentPriceBody(response.data)
         [] name = "get_24hr_ticker" -> TickerBody(response.data)
         [] name = "get_kline_data" ->
              KlineBody(symbolUpper, params.interval, params.limit, response.data)
         [] name = "get_price_history" ->
              HistoryBody(symbolUpper, params.interval, params.limit, response.data)

----------------------------------------------------------------------------
(* State *)

MaxInFlight == 2

Slots == 1..MaxInFlight

NoArgs == [present |-> FALSE, symbol |-> Undefined, interval |-> Undefined,
           limit |-> Undefined]

Args(symbol, interval, limit) ==
  [present |-> TRUE, symbol |-> symbol, interval |-> interval, limit |-> limit]

NoResponse == [ok |-> FALSE, message |-> "", data |-> NullData]
Rejected(message) == [ok |-> FALSE, message |-> message, data |-> NullData]
Resolved(data) == [ok |-> TRUE, message |-> "", data |-> data]

Idle ==
  [pc |-> "idle", name |-> "", args |-> NoArgs, handlers |-> <<>>,
   requests |-> <<>>, response |-> NoResponse, reply |-> NoReply]

VARIABLES
  baseURL,   \* the field of BinanceMCPServer, line 51
  calls      \* per slot, one invocation of the call-tool handler

vars == <<baseURL, calls>>

Init ==
  /\ baseURL = "https://api.binance.com/api/v3"
  /\ calls = [i \in Slots |-> Idle]

\* Awaited read from a field shared by all invocations (the first slot's)
AwaitedShared(i) == calls[1].response

\* the response the continuation of invocation i resumes with
Awaited(i) == calls[i].response

\* The call-tool handler up to its first await, lines 154-185 and the
\* argument expressions of axios.get in the selected handler.
CallTool(i, name, args) ==
  /\ calls[i].pc = "idle"
  /\ LET params == HandlerParams(name, args)
         upper == SymbolToUpperCase(params.symbol)
         entered == [calls[i] EXCEPT !.name = name, !.args = args]
     IN calls' = [calls EXCEPT ![i] =
          IF ~args.present
          THEN [entered EXCEPT !.pc = "replied",
                               !.reply = Thrown("Missing arguments")]
          ELSE IF name \notin ToolNames
          THEN [entered EXCEPT !.pc = "replied",
                               !.reply = GatewayCatch(Throw("Unknown tool: " \o name))]
          ELSE IF ~upper.ok
          THEN [entered EXCEPT !.pc = "replied",
                               !.handlers = <<HandlerOf(name)>>,
                               !.reply = GatewayCatch(Rethrow(PrefixOf(name), upper))]
          ELSE [entered EXCEPT !.pc = "awaiting",
                               !.handlers = <<HandlerOf(name)>>,
                               !.requests = <<Request(baseURL, name, upper.v, params)>>]]
  /\ UNCHANGED baseURL

\* The outbound call of invocation i settles: axios resolves with a body or
\* rejects with an Error, any of `responses`.
HttpRespond(i, responses) ==
  /\ calls[i].pc = "awaiting"
  /\ \E response \in responses :
       calls' = [calls EXCEPT ![i].pc = "responded", ![i].response = response]
  /\ UNCHANGED baseURL

\* The handler resumes after its await and runs to its return or throw; the
\* call-tool handler returns the result or converts the Error.
Resume(i) ==
  /\ calls[i].pc = "responded"
  /\ LET name == calls[i].name
         params == HandlerParams(name, calls[i].args)
         outcome == Rethrow(PrefixOf(name), HandlerBody(name, params, Awaited(i)))
     IN calls' = [calls EXCEPT ![i].pc = "replied",
                               ![i].reply = GatewayCatch(outcome)]
  /\ UNCHANGED baseURL

\* The reply (or the error) has been handed to the transport.
Return(i) ==
  /\ calls[i].pc = "replied"
  /\ calls' = [calls EXCEPT ![i] = Idle]
  /\ UNCHANGED baseURL

AllIdle == \A j \in Slots : calls[j].pc = "idle"

----------------------------------------------------------------------------
(* Inputs: what a caller may send and what the data source may answer *)

MaxKlines == 2
MaxHistory == 11
MaxPeriod == 2

\* the open, high, low, close and volume strings of a candle
CandlePrices ==
  << <<"100", "110", "90", "105", "10">>, <<"105", "115", "95", "110", "12">>,
     <<"110.5", "120", "88.25", "99", "8">> >>

\* the j-th candle of a one-minute series as the data source sends it: the
\* six decoded fields and the close time, which the decode ignores
Kline(j, p) ==
  <<Num((j - 1) * 60000), Str(p[1]), Str(p[2]), Str(p[3]), Str(p[4]), Str(p[5]),
    Num(j * 60000 - 1)>>

\* the series of candles, ordered by open time, whose j-th has the prices c[j]
Series(c) == [j \in 1..Len(c) |-> Kline(j, CandlePrices[c[j]])]

\* every series of `least` to `most` candles
SeriesBetween(least, most) ==
  {Series(c) : c \in UNION {[1..n -> 1..Len(CandlePrices)] : n \in least..most}}

PriceFields ==
  [NoFields EXCEPT !["symbol"] = Str("BTCUSDT"), !["price"] = Str("65000.5")]

TickerFields ==
  [NoFields EXCEPT !["symbol"] = Str("BTCUSDT"),
                   !["priceChange"] = Str("-120.5"),
                   !["priceChangePercent"] = Str("-0.18"),
                   !["lastPrice"] = Str("65000.5"),
                   !["highPrice"] = Str("66000"),
                   !["lowPrice"] = Str("64000.25"),
                   !["volume"] = Str("1234.5678"),
                   !["quoteVolume"] = Str("80250.75")]

\* a candle without fields, and a close of zero
BadSeries == << <<>> >>
FlatSeries == <<Kline(1, <<"0", "0", "0", "0", "0">>), Kline(2, CandlePrices[1])>>

Names == ToolNames \cup {"get_order_book"}

Symbols == {Undefined, Str("btcusdt"), Num(5)}
Intervals == {Undefined, Str("1h"), Str("7m")}
Limits == {Undefined, Null, Num(0), Num(-5), Num(50), Num(1000), Num(5000)}

ArgsSet ==
  {NoArgs} \cup {Args(s, iv, l) : s \in Symbols, iv \in Intervals, l \in Limits}

Responses ==
  {Rejected("Request failed with status code 400"), Resolved(NullData),
   Resolved(ObjectData(NoFields)), Resolved(ObjectData(PriceFields)),
   Resolved(ObjectData(TickerFields)), Resolved(ArrayData(BadSeries)),
   Resolved(ArrayData(FlatSeries))}
  \cup {Resolved(ArrayData(k)) : k \in SeriesBetween(0, MaxKlines)}

\* One invocation at a time, as the transport delivers them.
Next ==
  \E i \in Slots :
    \/ \E name \in Names, args \in ArgsSet : AllIdle /\ CallTool(i, name, args)
    \/ HttpRespond(i, Responses)
    \/ Resume(i)
    \/ Return(i)

Spec == Init /\ [][Next]_vars

\* Pipelined invocations: any slot may start while others are in flight.
PipelinedNames == {"get_current_price", "get_kline_data", "get_order_book"}

PipelinedArgs == {NoArgs, Args(Str("btcusdt"), Str("1h"), Undefined)}

PipelinedResponses ==
  {Rejected("Request failed with status code 400"),
   Resolved(ObjectData(PriceFields)), Resolved(ArrayData(<<>>)),
   Resolved(ArrayData(<<Kline(1, CandlePrices[1])>>))}

NextPipelined ==
  \E i \in Slots :
    \/ \E name \in PipelinedNames, args \in PipelinedArgs : CallTool(i, name, args)
    \/ HttpRespond(i, PipelinedResponses)
    \/ Resume(i)
    \/ Return(i)

SpecPipelined == Init /\ [][NextPipelined]_vars

\* get_price_history over series of up to MaxHistory candles.
HistoryArgs == {Args(Str("btcusdt"), Str("1m"), l) : l \in {Undefined, Num(2)}}

\* the series of n candles whose prices repeat those of `seed`
Periodic(n, seed) == Series([j \in 1..n |-> seed[((j - 1) % Len(seed)) + 1]])

HistoryResponses ==
  {Resolved(ArrayData(FlatSeries))}
  \cup {Resolved(ArrayData(Periodic(n, seed))) :
          n \in 1..MaxHistory, seed \in [1..MaxPeriod -> 1..Len(CandlePrices)]}

NextHistory ==
  \/ \E args \in HistoryArgs : CallTool(1, "get_price_history", args)
  \/ HttpRespond(1, HistoryResponses)
  \/ Resume(1)
  \/ Return(1)

SpecHistory == Init /\ [][NextHistory]_vars

----------------------------------------------------------------------------
(* Properties *)

Replied(i) == calls[i].pc = "replied"

\* the reply has the shape {content: [{type: "text", text}]}
IsTextResult(reply) ==
  /\ reply.kind = "result"
  /\ Len(reply.content) = 1
  /\ reply.content[1].type = "text"

TextOf(i) == calls[i].reply.content[1].text

KlineTools == {"get_kline_data", "get_price_history"}

\* the invocation in slot i met an error somewhere on its way
Failed(i) ==
  LET c == calls[i]
  IN \/ ~c.args.present
     \/ c.name \notin ToolNames
     \/ c.requests = <<>>
     \/ ~HandlerBody(c.name, HandlerParams(c.name, c.args), c.response).ok

\* the /klines requests issued so far
KlineRequests ==
  {calls[i].requests[1] : i \in {j \in Slots : calls[j].name \in KlineTools
                                               /\ calls[j].requests # <<>>}}

(* C1: every invocation, whatever its name, arguments and outbound outcome,
   ends in a reply of the shape {content: [{type: "text", text}]}; no error
   leaves the call-tool handler, and the text of a failed invocation begins
   with "Error:". *)
C1_EveryReplyIsTextResult ==
  \A i \in Slots :
    Replied(i) =>
      /\ IsTextResult(calls[i].reply)
      /\ Failed(i) => StartsWith(TextOf(i), "Error:")

(* C2: an invocation without arguments is answered with the text result
   "Error: Missing arguments" and issues no outbound request. *)
C2_MissingArgumentsIsTextResult ==
  \A i \in Slots :
    (Replied(i) /\ ~calls[i].args.present) =>
      /\ calls[i].reply = Result("Error: Missing arguments")
      /\ calls[i].requests = <<>>

\* what C3 says of the invocation in slot i
UnknownToolAnswer(i) ==
  /\ Replied(i)
  /\ IsTextResult(calls[i].reply)
  /\ StartsWith(TextOf(i), "Error: Unknown tool: " \o calls[i].name)
  /\ calls[i].handlers = <<>>
  /\ calls[i].requests = <<>>

(* C3, as stated: an invocation of an unregistered name is answered, for every
   arguments value, with a text result starting "Error: Unknown tool: <name>",
   runs no handler and issues no outbound request. *)
C3_UnknownToolAnyArguments ==
  \A i \in Slots :
    (calls[i].pc # "idle" /\ calls[i].name \notin ToolNames) => UnknownToolAnswer(i)

(* C3, amended: an invocation of an unregistered name whose arguments are
   present is answered with a text result starting "Error: Unknown tool:
   <name>", runs no handler and issues no outbound request. *)
C3_UnknownToolWithArguments ==
  \A i \in Slots :
    (calls[i].pc # "idle" /\ calls[i].name \notin ToolNames /\ calls[i].args.present)
      => UnknownToolAnswer(i)

C3_Witness ==
  \E i \in Slots :
    /\ Replied(i)
    /\ calls[i].name = "get_order_book"
    /\ calls[i].args.present
    /\ TextOf(i) = "Error: Unknown tool: get_order_book"

(* C4: the limit of every outbound /klines request is an integer between 1
   and 1000, whatever limit the caller supplied. *)
C4_LimitClamped ==
  \A r \in KlineRequests :
    r.params.limit.t = "number" /\ r.params.limit.n \in 1..1000

(* C5: when the limit argument is absent or falsy (undefined, null, 0) the
   /klines request of get_kline_data carries limit 100 and that of
   get_price_history limit 24; a truthy number is carried unchanged. *)
C5_LimitDefaults ==
  \A i \in Slots :
    (calls[i].name \in KlineTools /\ calls[i].requests # <<>>) =>
      LET given == calls[i].args.limit
          sent == calls[i].requests[1].params.limit
      IN /\ (given \in {Undefined, Null, Num(0)} /\ calls[i].name = "get_kline_data")
              => sent = Num(100)
         /\ (given \in {Undefined, Null, Num(0)} /\ calls[i].name = "get_price_history")
              => sent = Num(24)
         /\ (given.t = "number" /\ given.n # 0) => sent = given

C5_Witness ==
  /\ \E i \in Slots :
       /\ calls[i].name = "get_price_history"
       /\ calls[i].args.limit = Num(0)
       /\ calls[i].requests # <<>>
       /\ calls[i].requests[1].params.limit = Num(24)
       /\ Replied(i)

(* C6: an empty or missing candle array is a failure: get_kline_data replies
   "Error: Failed to fetch kline data: No kline data received" and
   get_price_history "Error: Failed to fetch price history: No historical data
   received"; every reply of the two tools that is not an error was made from
   a series of at least one candle. *)
C6_EmptySeriesFails ==
  \A i \in Slots :
    (Replied(i) /\ calls[i].name \in KlineTools /\ calls[i].args.present) =>
      LET c == calls[i]
          empty == /\ c.requests # <<>>
                   /\ c.response.ok
                   /\ \/ c.response.data.kind = "null"
                      \/ /\ c.response.data.kind = "array"
                         /\ c.response.data.klines = <<>>
      IN /\ (empty /\ c.name = "get_kline_data") =>
              c.reply = Result("Error: Failed to fetch kline data: No kline data received")
         /\ (empty /\ c.name = "get_price_history") =>
              c.reply = Result("Error: Failed to fetch price history: No historical data received")
         /\ (IsTextResult(c.reply) /\ ~StartsWith(TextOf(i), "Error:")) =>
              /\ c.requests # <<>>
              /\ c.response.ok
              /\ c.response.data.kind = "array"
              /\ Len(c.response.data.klines) >= 1

C6_Witness ==
  \E i \in Slots :
    /\ Replied(i)
    /\ calls[i].name = "get_kline_data"
    /\ calls[i].response = Resolved(ArrayData(<<>>))
    /\ TextOf(i) = "Error: Failed to fetch kline data: No kline data received"

(* C7: every outbound /klines request carries an interval of the enumerated
   set; an invocation with any other interval never reaches the data source. *)
C7_IntervalEnumerated ==
  \A r \in KlineRequests :
    r.params.interval.t = "string" /\ r.params.interval.s \in IntervalEnum

(* C8, as stated: an invocation with a registered name and arguments present
   runs exactly one handler, which issues exactly one outbound GET before the
   reply, whatever the argument values. *)
C8_ExactlyOneRequestAlways ==
  \A i \in Slots :
    (Replied(i) /\ calls[i].name \in ToolNames /\ calls[i].args.present) =>
      /\ Len(calls[i].handlers) = 1
      /\ Len(calls[i].requests) = 1

(* C8, amended: an invocation with a registered name and arguments present
   runs exactly the handler of that name, which issues exactly one outbound GET
   to its path before the reply when `symbol` is a string, and none when
   `symbol` is missing or not a string; never more than one. *)
C8_OneRequestForStringSymbol ==
  \A i \in Slots :
    (calls[i].pc # "idle" /\ calls[i].name \in ToolNames /\ calls[i].args.present) =>
      /\ calls[i].handlers = <<HandlerOf(calls[i].name)>>
      /\ Len(calls[i].requests) = (IF calls[i].args.symbol.t = "string" THEN 1 ELSE 0)
      /\ calls[i].requests # <<>> =>
           calls[i].requests[1].url
             = "https://api.binance.com/api/v3" \o PathOf(calls[i].name)
      /\ calls[i].requests = <<>> => Replied(i)

C8_Witness ==
  \E i \in Slots :
    /\ Replied(i)
    /\ calls[i].name = "get_24hr_ticker"
    /\ calls[i].args.symbol = Str("btcusdt")
    /\ calls[i].requests
         = <<[url |-> "https://api.binance.com/api/v3/ticker/24hr",
              params |-> [symbol |-> Str("BTCUSDT"), interval |-> Undefined,
                          limit |-> Undefined]]>>
    /\ ~StartsWith(TextOf(i), "Error:")

\* the reply of an invocation that runs alone from start to end, given the
\* outcome of its outbound call
RunAlone(name, args, response) ==
  IF ~args.present THEN Thrown("Missing arguments")
  ELSE IF name \notin ToolNames THEN Result("Error: Unknown tool: " \o name)
  ELSE
    LET params == HandlerParams(name, args)
        upper == SymbolToUpperCase(params.symbol)
    IN IF ~upper.ok THEN Result("Error: " \o PrefixOf(name) \o upper.v)
       ELSE GatewayCatch(Rethrow(PrefixOf(name), HandlerBody(name, params, response)))

(* C9: pipelined invocations are independent: under every interleaving of
   their steps each reply is the one the invocation gives when it runs alone
   with the same arguments and outbound response, a step of one invocation
   changes nothing of another, and the base URL is never written. *)
C9_Independent ==
  /\ [](\A i \in Slots :
          Replied(i) =>
            calls[i].reply = RunAlone(calls[i].name, calls[i].args, calls[i].response))
  /\ [][/\ baseURL' = baseURL
        /\ \E i \in Slots : \A j \in Slots \ {i} : calls'[j] = calls[j]]_vars

C9_Witness ==
  /\ calls[1].pc = "responded"
  /\ calls[1].name = "get_kline_data"
  /\ Replied(2)
  /\ calls[2].name = "get_current_price"
  /\ calls[2].response = Resolved(ObjectData(PriceFields))
  /\ calls[1].response # calls[2].response
  /\ TextOf(2) = "Current price for BTCUSDT: $65,000.5"

\* x is the number 100 * num / den
IsPercentOf(x, num, den) ==
  IF den = 0
  THEN IF num = 0 THEN x.k = "nan"
       ELSE x.k = "inf" /\ (x.n > 0) = (num > 0)
  ELSE x.k = "fin" /\ x.n * den = 100 * num * x.d

(* C10: from n >= 1 candles get_price_history builds n entries in source
   order; entry i has period i, entry 1 has change 0 and entry i > 1 has change
   (close[i] - close[i-1]) / close[i-1] * 100; the total change is
   (close[n] - open[1]) / open[1] * 100; the listing shows the trailing
   min(10, n) entries, oldest first.  Closes 105 then 110 after an open of 100
   give a total of +10.00% and a second period of +4.76%. *)
C10_PriceHistory ==
  \A i \in Slots :
    (Replied(i) /\ calls[i].name = "get_price_history" /\ calls[i].response.ok
       /\ calls[i].response.data.klines # <<>>) =>
      LET klines == calls[i].response.data.klines
          n == Len(klines)
          entries == HistoricalData(klines)
          open(j) == ParseFloat(klines[j][2])
          close(j) == ParseFloat(klines[j][5])
          shown == IF n < 10 THEN n ELSE 10
          listing == [m \in 1..shown |-> PeriodLine(entries[n - shown + m])]
          total == TotalChange(entries)
      IN /\ Len(entries) = n
         /\ \A j \in 1..n :
              /\ entries[j].period = j
              /\ entries[j].close = close(j)
              /\ entries[j].timestamp = ToISOString(klines[j][1].n)
         /\ entries[1].change = Fin(0, 1)
         /\ \A j \in 2..n :
              IsPercentOf(entries[j].change,
                          close(j).n * close(j - 1).d - close(j - 1).n * close(j).d,
                          close(j - 1).n * close(j).d)
         /\ IsPercentOf(total,
                        close(n).n * open(1).d - open(1).n * close(n).d,
                        open(1).n * close(n).d)
         /\ IsTextResult(calls[i].reply)
         /\ Contains(TextOf(i), "U+2022 Total Change: " \o Signed(total)
                                 \o ToFixed(total, 2) \o "%\n")
         /\ EndsWith(TextOf(i), "Recent 10 periods:\n" \o Join(listing, "\n"))
         /\ klines = Series(<<1, 2>>) =>
              /\ Contains(TextOf(i), "U+2022 Total Change: +10.00%\n")
              /\ EndsWith(TextOf(i),
                          "Recent 10 periods:\n"
                          \o "1970-01-01 00:00:00: 105.00 (+0.00%)\n"
                          \o "1970-01-01 00:01:00: 110.00 (+4.76%)")

C10_Witness ==
  \E i \in Slots :
    /\ Replied(i)
    /\ calls[i].name = "get_price_history"
    /\ Len(calls[i].response.data.klines) = 11
    /\ calls[i].response.data.klines[10][5] # calls[i].response.data.klines[11][5]
    /\ StartsWith(TextOf(i), "U+1F4CA BTCUSDT Price History (1m intervals, 24 periods):")
    /\ ~Contains(TextOf(i), "1970-01-01 00:00:00: ")
    /\ Contains(TextOf(i), "\n1970-01-01 00:01:00: ")

====
